---- MODULE Spec2Model ----
(***************************************************************************)
(* Model of taggy's native operation engine (packages/taggy/native/src/    *)
(* api.rs): read_all, read_primary, read_any, write_all, write_primary,    *)
(* remove_all and remove_tag over one audio file, one unparsable file and  *)
(* one path that does not exist.                                           *)
(*                                                                         *)
(* The tag backend (lofty's TaggedFile / BoundTaggedFile) and the          *)
(* conversions between taggy's Tag and the backend's tag are not part of   *)
(* api.rs; they are modelled from the interface the specification gives    *)
(* (sections 4.2, 4.3, 4.4 and 6).                                         *)
(***************************************************************************)
EXTENDS Integers, Sequences, FiniteSets, TLC

\* Longest tag sequence handed to write_all.
MaxTags == 3

\* An absent optional field.
None == "None"

\* No tag of a type is stored in the file.
Absent == [absent |-> TRUE]

\* No call has returned since the caller took the last result.
Idle == [op |-> "Idle"]

(***************************************************************************)
(* Data model                                                              *)
(***************************************************************************)

\* The backend's tag types; the audio file is an MPEG file, whose primary
\* tag type is Id3v2 and which cannot host Vorbis comments.
LoftyTagTypes == {"Id3v2", "Id3v1", "VorbisComments"}

\* taggy's TagType: the backend's types plus the write-time sentinel.
FilePrimaryType == "FilePrimaryType"

TagType == LoftyTagTypes \cup {FilePrimaryType}

FileTypePrimary == "Id3v2"

SupportedTagTypes == {"Id3v2", "Id3v1"}

\* Order in which the backend discovers the tags of a file.
DiscoveryOrder == <<"Id3v2", "Id3v1">>

PicFront == [pic_type |-> "CoverFront", pic_data |-> <<255, 216, 255>>, mime_type |-> "Jpeg"]

PicBack == [pic_type |-> "CoverBack", pic_data |-> <<137, 80>>, mime_type |-> "Png"]

\* Tag::new(tag_type): every field absent.
TagNew(tag_type) == [tag_type |-> tag_type, track_title |-> None, pictures |-> <<>>]

\* Field sets the callers supply: nothing, a title, a title and two pictures.
Contents ==
    { [track_title |-> None, pictures |-> <<>>],
      [track_title |-> "X", pictures |-> <<>>],
      [track_title |-> "Y", pictures |-> <<PicFront, PicBack>>] }

Tags == { [tag_type |-> t, track_title |-> c.track_title, pictures |-> c.pictures] :
            t \in TagType, c \in Contents }

\* Tags whose type names a backend type: what write_all and remove_tag are
\* given (the sentinel is a directive of write_primary only).
ResolvedTags == { t \in Tags : t.tag_type \in LoftyTagTypes }

TagSeqs == UNION { [1..n -> ResolvedTags] : n \in 0..MaxTags }

FakePath == "fake/path/file.mp3"

CorruptPath == "corrupt.mp3"

SamplePath == "sample.mp3"

Paths == {FakePath, CorruptPath, SamplePath}

VARIABLES
    disk,          \* the audio file's stored tags: backend type -> tag or Absent
    reflectsSave,  \* whether the backend's bound file drops empty tags on save
    call           \* the call that has just returned, or Idle

vars == <<disk, reflectsSave, call>>

(***************************************************************************)
(* Conversions (utils::lofty_froms)                                        *)
(***************************************************************************)

\* From<TagType> for lofty::TagType, on the types that name a backend type.
TagTypeToLofty(tag_type) == tag_type

\* From<lofty::TagType> for TagType
TagTypeFromLofty(lofty_type) == lofty_type

PictureToLofty(p) == [pic_type |-> p.pic_type, mime_type |-> p.mime_type, data |-> p.pic_data]

PictureFromLofty(p) == [pic_type |-> p.pic_type, pic_data |-> p.data, mime_type |-> p.mime_type]

\* Tag::to_lofty: absent fields are omitted, pictures are mapped in order.
ToLofty(tag) ==
    [tag_type |-> TagTypeToLofty(tag.tag_type),
     items |-> IF tag.track_title = None THEN {} ELSE {<<"TrackTitle", tag.track_title>>},
     pictures |-> [i \in 1..Len(tag.pictures) |-> PictureToLofty(tag.pictures[i])]]

\* Tag::from(lofty tag)
FromLofty(lt) ==
    [tag_type |-> TagTypeFromLofty(lt.tag_type),
     track_title |-> IF \E it \in lt.items : it[1] = "TrackTitle"
                     THEN (CHOOSE it \in lt.items : it[1] = "TrackTitle")[2]
                     ELSE None,
     pictures |-> [i \in 1..Len(lt.pictures) |-> PictureFromLofty(lt.pictures[i])]]

LoftyIsEmpty(lt) == lt.items = {} /\ lt.pictures = <<>>

(***************************************************************************)
(* Backend: the in-memory tagged file is a sequence of backend tags         *)
(***************************************************************************)

RECURSIVE ReadTagsFrom(_, _)
\* The tags stored in the file, in discovery order, from position i on.
ReadTagsFrom(d, i) ==
    IF i > Len(DiscoveryOrder) THEN <<>>
    ELSE IF d[DiscoveryOrder[i]] = Absent THEN ReadTagsFrom(d, i + 1)
    ELSE <<d[DiscoveryOrder[i]]>> \o ReadTagsFrom(d, i + 1)

ParseFile(d) == ReadTagsFrom(d, 1)

\* TaggedFile::clear
Clear(tags) == <<>>

HasTagType(tags, ty) == \E i \in 1..Len(tags) : tags[i].tag_type = ty

\* TaggedFile::remove: drops the tag of type ty; the caller learns whether
\* there was one from HasTagType.
Remove(tags, ty) == SelectSeq(tags, LAMBDA t : t.tag_type # ty)

\* TaggedFile::insert_tag: an unsupported type is refused; otherwise the tag
\* replaces the one of its type and goes to the end.
InsertTag(tags, lt) ==
    IF lt.tag_type \in SupportedTagTypes
    THEN Append(Remove(tags, lt.tag_type), lt)
    ELSE tags

RECURSIVE SaveTo(_, _, _)
\* Writes the first n in-memory tags to the file, one after the other: a tag
\* without items or pictures strips the stored tag of its type, and a type
\* with no in-memory tag is left as it is in the file.
SaveTo(d, tags, n) ==
    IF n = 0 THEN d
    ELSE LET prev == SaveTo(d, tags, n - 1)
             lt == tags[n]
         IN [prev EXCEPT ![lt.tag_type] = IF LoftyIsEmpty(lt) THEN Absent ELSE lt]

\* BoundTaggedFile::save with an I/O budget of io tag writes: it fails at
\* the first write past the budget, with the earlier writes done. After a
\* save that succeeded a backend that reflects it (rs) has dropped the tags
\* without items or pictures from the in-memory file as well.
Save(d, tags, io, rs) ==
    IF io >= Len(tags)
    THEN [ok |-> TRUE, disk |-> SaveTo(d, tags, Len(tags)),
          tags |-> IF rs THEN SelectSeq(tags, LAMBDA t : ~LoftyIsEmpty(t)) ELSE tags]
    ELSE [ok |-> FALSE, disk |-> SaveTo(d, tags, io), tags |-> tags]

IoBudgets == 0..Cardinality(SupportedTagTypes)

(***************************************************************************)
(* TaggyFile aggregate                                                     *)
(***************************************************************************)

\* TaggyFile::from over the backend's parsed file: every tag, in order.
taggy_from_tagged(tags, path) ==
    [path |-> path, tags |-> [i \in 1..Len(tags) |-> FromLofty(tags[i])]]

taggy_from_bound_tagged(tags, path) == taggy_from_tagged(tags, path)

\* The tag of the container's primary type, if any.
get_primary_tag_from_tagged_file(tags) ==
    LET prim == SelectSeq(tags, LAMBDA t : t.tag_type = FileTypePrimary)
    IN IF prim = <<>> THEN <<>> ELSE <<FromLofty(prim[1])>>

\* The first tag of the file, if any.
get_any_tag_from_tagged_file(tags) ==
    IF tags = <<>> THEN <<>> ELSE <<FromLofty(tags[1])>>

(***************************************************************************)
(* Operation engine (api.rs)                                               *)
(***************************************************************************)

Failure(d, err) == [ok |-> FALSE, err |-> err, tags |-> <<>>, disk |-> d, saved |-> FALSE]

Success(d, tags, saved) == [ok |-> TRUE, err |-> None, tags |-> tags, disk |-> d, saved |-> saved]

\* Variant of get_tagged_file that takes a path it cannot open or parse for a
\* file without tags.
get_tagged_file_lenient(d, path) ==
    IF path = SamplePath
    THEN [ok |-> TRUE, err |-> None, tags |-> ParseFile(d)]
    ELSE [ok |-> TRUE, err |-> None, tags |-> <<>>]

\* Probe::open fails on a path that does not exist, read() on a file the
\* backend cannot interpret.
get_tagged_file(d, path) ==
    IF path = FakePath THEN [ok |-> FALSE, err |-> "NotFoundError", tags |-> <<>>]
    ELSE IF path = CorruptPath THEN [ok |-> FALSE, err |-> "ParseError", tags |-> <<>>]
    ELSE [ok |-> TRUE, err |-> None, tags |-> ParseFile(d)]

\* OpenOptions::open for reading and writing, then BoundTaggedFile::read_from.
get_bound_tagged_file(d, path) ==
    IF path = FakePath THEN [ok |-> FALSE, err |-> "NotFoundError", tags |-> <<>>]
    ELSE IF path = CorruptPath THEN [ok |-> FALSE, err |-> "ParseError", tags |-> <<>>]
    ELSE [ok |-> TRUE, err |-> None, tags |-> ParseFile(d)]

read_all(d, path) ==
    LET tagged == get_tagged_file(d, path)
    IN IF ~tagged.ok THEN Failure(d, tagged.err)
       ELSE Success(d, taggy_from_tagged(tagged.tags, path).tags, FALSE)

\* Variant of read_primary that keeps the first tag instead of the primary one.
read_primary_first(d, path) ==
    LET tagged == get_tagged_file(d, path)
    IN IF ~tagged.ok THEN Failure(d, tagged.err)
       ELSE Success(d, get_any_tag_from_tagged_file(tagged.tags), FALSE)

read_primary(d, path) ==
    LET tagged == get_tagged_file(d, path)
    IN IF ~tagged.ok THEN Failure(d, tagged.err)
       ELSE Success(d, get_primary_tag_from_tagged_file(tagged.tags), FALSE)

read_any(d, path) ==
    LET tagged == get_tagged_file(d, path)
    IN IF ~tagged.ok THEN Failure(d, tagged.err)
       ELSE Success(d, get_any_tag_from_tagged_file(tagged.tags), FALSE)

RECURSIVE insert_tags_from(_, _, _)
insert_tags_from(file, tags, i) ==
    IF i > Len(tags) THEN file
    ELSE insert_tags_from(InsertTag(file, tags[i]), tags, i + 1)

RECURSIVE insert_tags_until_refused_from(_, _, _)
insert_tags_until_refused_from(file, tags, i) ==
    IF i > Len(tags) \/ tags[i].tag_type \notin SupportedTagTypes THEN file
    ELSE insert_tags_until_refused_from(InsertTag(file, tags[i]), tags, i + 1)

\* Variant of insert_tags that stops at the first tag the backend refuses.
insert_tags_until_refused(file, tags) == insert_tags_until_refused_from(file, tags, 1)

RECURSIVE push_tags_from(_, _, _)
push_tags_from(file, tags, i) ==
    IF i > Len(tags) THEN file
    ELSE push_tags_from(
             IF tags[i].tag_type \in SupportedTagTypes THEN Append(file, tags[i]) ELSE file,
             tags, i + 1)

\* Variant of insert_tags that appends each supported tag without replacing
\* the tag of its type.
insert_tags_push(file, tags) == push_tags_from(file, tags, 1)

\* Every tag is offered to the backend in turn; a refusal is only logged.
insert_tags(file, tags) == insert_tags_from(file, tags, 1)

write_all(d, rs, path, tags, override_existent, io) ==
    LET bound == get_bound_tagged_file(d, path)
    IN IF ~bound.ok THEN Failure(d, bound.err)
       ELSE LET cleared == IF override_existent THEN Clear(bound.tags) ELSE bound.tags
                lofty_tags == [i \in 1..Len(tags) |-> ToLofty(tags[i])]
                tagged_file == insert_tags(cleared, lofty_tags)
                saved == Save(d, tagged_file, io, rs)
            IN IF saved.ok
               THEN Success(saved.disk, taggy_from_bound_tagged(saved.tags, path).tags, TRUE)
               ELSE [Failure(saved.disk, "SaveError") EXCEPT !.saved = TRUE]

write_primary(d, rs, path, tag, keep_others, io) ==
    LET bound == get_bound_tagged_file(d, path)
    IN IF ~bound.ok THEN Failure(d, bound.err)
       ELSE LET cleared == IF ~keep_others THEN Clear(bound.tags) ELSE bound.tags
                updated_tag == [tag EXCEPT !.tag_type = TagTypeFromLofty(FileTypePrimary)]
                tagged_file == InsertTag(cleared, ToLofty(updated_tag))
                saved == Save(d, tagged_file, io, rs)
            IN IF saved.ok
               THEN Success(saved.disk, taggy_from_bound_tagged(saved.tags, path).tags, TRUE)
               ELSE [Failure(saved.disk, "SaveError") EXCEPT !.saved = TRUE]

\* Adds a tag with empty data to the file.
insert_empty_tag(file, tag_type) == InsertTag(file, ToLofty(TagNew(tag_type)))

remove_all(d, rs, path, io) ==
    LET bound == get_bound_tagged_file(d, path)
    IN IF ~bound.ok THEN Failure(d, bound.err)
       ELSE LET cleared == Clear(bound.tags)
                tagged == insert_empty_tag(cleared, TagTypeFromLofty(FileTypePrimary))
                saved == Save(d, tagged, io, rs)
            IN IF saved.ok
               THEN Success(saved.disk, <<>>, TRUE)
               ELSE [Failure(saved.disk, "SaveError") EXCEPT !.saved = TRUE]

\* Variant of remove_tag without the early return for a type the file lacks.
remove_tag_always_saves(d, rs, path, tag, io) ==
    LET bound == get_bound_tagged_file(d, path)
    IN IF ~bound.ok THEN Failure(d, bound.err)
       ELSE LET removed == Remove(bound.tags, TagTypeToLofty(tag.tag_type))
                tagged == insert_empty_tag(removed, tag.tag_type)
                saved == Save(d, tagged, io, rs)
            IN IF saved.ok
               THEN Success(saved.disk, <<>>, TRUE)
               ELSE [Failure(saved.disk, "SaveError") EXCEPT !.saved = TRUE]

remove_tag(d, rs, path, tag, io) ==
    LET bound == get_bound_tagged_file(d, path)
    IN IF ~bound.ok THEN Failure(d, bound.err)
       ELSE IF ~HasTagType(bound.tags, TagTypeToLofty(tag.tag_type))
       THEN Success(d, <<>>, FALSE)
       ELSE LET removed == Remove(bound.tags, TagTypeToLofty(tag.tag_type))
                tagged == insert_empty_tag(removed, tag.tag_type)
                saved == Save(d, tagged, io, rs)
            IN IF saved.ok
               THEN Success(saved.disk, <<>>, TRUE)
               ELSE [Failure(saved.disk, "SaveError") EXCEPT !.saved = TRUE]

(***************************************************************************)
(* State machine: one action per operation; the caller then takes the      *)
(* result (Return) before the next call.                                   *)
(***************************************************************************)

Record(op, path, tags, flag, r) ==
    [op |-> op, path |-> path, tags |-> tags, flag |-> flag, before |-> disk,
     ok |-> r.ok, err |-> r.err, ret |-> r.tags, saved |-> r.saved]

TypeOK ==
    /\ disk \in [SupportedTagTypes -> {Absent} \cup {ToLofty(t) : t \in Tags}]
    /\ reflectsSave \in BOOLEAN

Init ==
    /\ disk = [t \in SupportedTagTypes |-> Absent]
    /\ reflectsSave \in BOOLEAN
    /\ call = Idle

ReadAll ==
    /\ call = Idle
    /\ \E path \in Paths :
        LET r == read_all(disk, path)
        IN /\ disk' = r.disk
           /\ call' = Record("read_all", path, <<>>, FALSE, r)
    /\ UNCHANGED reflectsSave

ReadPrimary ==
    /\ call = Idle
    /\ \E path \in Paths :
        LET r == read_primary(disk, path)
        IN /\ disk' = r.disk
           /\ call' = Record("read_primary", path, <<>>, FALSE, r)
    /\ UNCHANGED reflectsSave

ReadAny ==
    /\ call = Idle
    /\ \E path \in Paths :
        LET r == read_any(disk, path)
        IN /\ disk' = r.disk
           /\ call' = Record("read_any", path, <<>>, FALSE, r)
    /\ UNCHANGED reflectsSave

WriteAll ==
    /\ call = Idle
    /\ \E path \in Paths, tags \in TagSeqs, override_existent \in BOOLEAN, io \in IoBudgets :
        LET r == write_all(disk, reflectsSave, path, tags, override_existent, io)
        IN /\ disk' = r.disk
           /\ call' = Record("write_all", path, tags, override_existent, r)
    /\ UNCHANGED reflectsSave

WritePrimary ==
    /\ call = Idle
    /\ \E path \in Paths, tag \in Tags, keep_others \in BOOLEAN, io \in IoBudgets :
        LET r == write_primary(disk, reflectsSave, path, tag, keep_others, io)
        IN /\ disk' = r.disk
           /\ call' = Record("write_primary", path, <<tag>>, keep_others, r)
    /\ UNCHANGED reflectsSave

RemoveAll ==
    /\ call = Idle
    /\ \E path \in Paths, io \in IoBudgets :
        LET r == remove_all(disk, reflectsSave, path, io)
        IN /\ disk' = r.disk
           /\ call' = Record("remove_all", path, <<>>, FALSE, r)
    /\ UNCHANGED reflectsSave

RemoveTag ==
    /\ call = Idle
    /\ \E path \in Paths, tag \in ResolvedTags, io \in IoBudgets :
        LET r == remove_tag(disk, reflectsSave, path, tag, io)
        IN /\ disk' = r.disk
           /\ call' = Record("remove_tag", path, <<tag>>, FALSE, r)
    /\ UNCHANGED reflectsSave

Return ==
    /\ call # Idle
    /\ call' = Idle
    /\ UNCHANGED <<disk, reflectsSave>>

Next ==
    \/ ReadAll
    \/ ReadPrimary
    \/ ReadAny
    \/ WriteAll
    \/ WritePrimary
    \/ RemoveAll
    \/ RemoveTag
    \/ Return

Spec == Init /\ [][Next]_vars

(***************************************************************************)
(* Properties                                                              *)
(***************************************************************************)

\* The file holds a tag of type ty.
HoldsType(d, ty) == ty \in DOMAIN d /\ d[ty] # Absent

\* The tag of type ty a read of the file reports.
StoredTag(d, ty) == FromLofty(d[ty])

IsEmptyTag(tag) == tag.track_title = None /\ tag.pictures = <<>>

SuppliedTypes(tags) == { tags[i].tag_type : i \in 1..Len(tags) }

\* The last tag of type ty in a supplied sequence.
LastOfType(tags, ty) ==
    tags[CHOOSE i \in 1..Len(tags) :
            /\ tags[i].tag_type = ty
            /\ \A j \in (i + 1)..Len(tags) : tags[j].tag_type # ty]

NoTypeTwice(tags) ==
    \A i, j \in 1..Len(tags) : i # j => tags[i].tag_type # tags[j].tag_type

NoTags == [t \in SupportedTagTypes |-> Absent]

\* C1: on a path that cannot be opened every one of the seven operations
\* fails with NotFoundError and the stored tags are left as they were.
C1_MissingPathFails ==
    (call.op # "Idle" /\ call.path = FakePath) =>
        /\ ~call.ok
        /\ call.err = "NotFoundError"
        /\ call.ret = <<>>
        /\ disk = call.before

C1_Witness ==
    /\ call.op = "write_all"
    /\ call.path = FakePath
    /\ call.tags # <<>>
    /\ call.before # NoTags
    /\ ~call.ok

\* C2: after a successful write_primary of any tag T, read_primary yields
\* exactly one tag, equal to T but for its tag_type, which is the primary type.
C2_PrimaryRoundTrip ==
    (call.op = "write_primary" /\ call.ok) =>
        read_primary(disk, call.path).tags
            = <<[call.tags[1] EXCEPT !.tag_type = FileTypePrimary]>>

\* C3: after a successful remove_tag of a type the file held no read returns
\* a tag of that type, and after a successful remove_all on a file that held
\* tags every read returns no tag.
C3_FullRemoval ==
    /\ (/\ call.op = "remove_tag"
        /\ call.ok
        /\ HoldsType(call.before, call.tags[1].tag_type)) =>
            \A r \in {read_all(disk, call.path), read_primary(disk, call.path),
                      read_any(disk, call.path)} :
                \A i \in 1..Len(r.tags) : r.tags[i].tag_type # call.tags[1].tag_type
    /\ (call.op = "remove_all" /\ call.ok /\ call.before # NoTags) =>
            /\ read_all(disk, call.path).tags = <<>>
            /\ read_primary(disk, call.path).tags = <<>>
            /\ read_any(disk, call.path).tags = <<>>

\* C4: remove_tag of a type the file does not hold returns success without
\* saving and leaves every stored tag as it was.
C4_NoOpDelete ==
    (/\ call.op = "remove_tag"
     /\ call.path = SamplePath
     /\ ~HoldsType(call.before, call.tags[1].tag_type)) =>
        /\ call.ok
        /\ ~call.saved
        /\ disk = call.before

C4_Witness ==
    /\ call.op = "remove_tag"
    /\ call.path = SamplePath
    /\ call.tags[1].tag_type = "Id3v1"
    /\ ~HoldsType(call.before, "Id3v1")
    /\ HoldsType(call.before, "Id3v2")
    /\ call.ok

\* C5 as written: write_all on a file that opens and parses fails only when the
\* save fails, and after a success every input tag of a supported type is
\* present in the file.
C5_EveryInputTagPresent ==
    (call.op = "write_all" /\ call.path = SamplePath) =>
        /\ ~call.ok => (call.err = "SaveError" /\ call.saved)
        /\ call.ok =>
            \A i \in 1..Len(call.tags) :
                call.tags[i].tag_type \in SupportedTagTypes =>
                    /\ HoldsType(disk, call.tags[i].tag_type)
                    /\ StoredTag(disk, call.tags[i].tag_type) = call.tags[i]

\* C5 amended: write_all on a file that opens and parses fails only when the
\* save fails, whatever unsupported tags the input holds, and after a success
\* the file holds, for every supported type in the input, the last input tag
\* of that type, or no tag of that type when that tag has no field set.
C5_LastSupportedTagStored ==
    (call.op = "write_all" /\ call.path = SamplePath) =>
        /\ ~call.ok => (call.err = "SaveError" /\ call.saved)
        /\ call.ok =>
            /\ call.saved
            /\ \A ty \in SupportedTagTypes \cap SuppliedTypes(call.tags) :
                LET last == LastOfType(call.tags, ty)
                IN IF IsEmptyTag(last)
                   THEN ~HoldsType(disk, ty)
                   ELSE HoldsType(disk, ty) /\ StoredTag(disk, ty) = last

C5_Witness ==
    /\ call.op = "write_all"
    /\ call.path = SamplePath
    /\ call.ok
    /\ Len(call.tags) = 3
    /\ call.tags[1].tag_type = "Id3v1"
    /\ call.tags[2].tag_type \notin SupportedTagTypes
    /\ call.tags[3].tag_type = "Id3v2"
    /\ ~IsEmptyTag(call.tags[1])
    /\ ~IsEmptyTag(call.tags[3])
    /\ StoredTag(disk, "Id3v1") = call.tags[1]
    /\ StoredTag(disk, "Id3v2") = call.tags[3]

\* C6: after a successful write_all, with override_existent the file holds no
\* tag of a type that was not supplied; without it the tags of the types not
\* supplied are kept unchanged; in both cases a stored tag of a supplied type
\* is the last tag supplied for that type.
C6_OverrideOrMerge ==
    (call.op = "write_all" /\ call.ok) =>
        /\ call.flag =>
            \A ty \in SupportedTagTypes \ SuppliedTypes(call.tags) : ~HoldsType(disk, ty)
        /\ ~call.flag =>
            \A ty \in SupportedTagTypes \ SuppliedTypes(call.tags) : disk[ty] = call.before[ty]
        /\ \A ty \in SupportedTagTypes \cap SuppliedTypes(call.tags) :
            HoldsType(disk, ty) => StoredTag(disk, ty) = LastOfType(call.tags, ty)

\* C7: after a successful write_primary, without keep_others the file holds no
\* tag but one of the primary type; with keep_others the tags of the other
\* types are unchanged; in both cases a stored primary tag is the supplied tag.
C7_KeepOthers ==
    (call.op = "write_primary" /\ call.ok) =>
        /\ ~call.flag =>
            \A ty \in SupportedTagTypes \ {FileTypePrimary} : ~HoldsType(disk, ty)
        /\ call.flag =>
            \A ty \in SupportedTagTypes \ {FileTypePrimary} : disk[ty] = call.before[ty]
        /\ HoldsType(disk, FileTypePrimary) =>
            StoredTag(disk, FileTypePrimary)
                = [call.tags[1] EXCEPT !.tag_type = FileTypePrimary]

\* C8: on a parseable file read_all succeeds with every stored tag in discovery
\* order (no tag, not an error, on a file without tags), read_primary returns
\* the tag of the primary type or nothing, read_any returns the first tag of
\* read_all or nothing, and none of the three changes the file.
C8_ReadsAgree ==
    (call.op \in {"read_all", "read_primary", "read_any"} /\ call.path = SamplePath) =>
        LET all == read_all(disk, SamplePath).tags
            prim == { i \in 1..Len(all) : all[i].tag_type = FileTypePrimary }
        IN /\ call.ok
           /\ disk = call.before
           /\ call.op = "read_all" =>
                /\ Len(call.ret) = Cardinality({ ty \in SupportedTagTypes : HoldsType(disk, ty) })
                /\ \A ty \in SupportedTagTypes :
                    HoldsType(disk, ty) =>
                        \E i \in 1..Len(call.ret) : call.ret[i] = StoredTag(disk, ty)
                /\ \A i, j \in 1..Len(call.ret) :
                    i < j =>
                        \E a, b \in 1..Len(DiscoveryOrder) :
                            /\ a < b
                            /\ DiscoveryOrder[a] = call.ret[i].tag_type
                            /\ DiscoveryOrder[b] = call.ret[j].tag_type
           /\ call.op = "read_primary" =>
                IF prim = {} THEN call.ret = <<>>
                ELSE \E i \in prim : call.ret = <<all[i]>>
           /\ call.op = "read_any" =>
                IF all = <<>> THEN call.ret = <<>> ELSE call.ret = <<all[1]>>

C8_Witness ==
    /\ call.op = "read_primary"
    /\ call.path = SamplePath
    /\ HoldsType(disk, "Id3v1")
    /\ ~HoldsType(disk, FileTypePrimary)
    /\ call.ok
    /\ call.ret = <<>>

\* C9: the tag sequence a successful read or write returns holds at most one
\* tag per tag type and never a tag typed with the FilePrimaryType sentinel.
C9_OneTagPerType ==
    (call.op \in {"read_all", "read_primary", "read_any", "write_all", "write_primary"}
        /\ call.ok) =>
        /\ NoTypeTwice(call.ret)
        /\ \A i \in 1..Len(call.ret) : call.ret[i].tag_type # FilePrimaryType

C9_Witness ==
    /\ call.op = "write_all"
    /\ call.ok
    /\ ~call.flag
    /\ Len(call.tags) = 3
    /\ call.tags[1].tag_type = "Id3v2"
    /\ call.tags[2].tag_type = "Id3v2"
    /\ call.tags[3].tag_type = "Id3v1"
    /\ HoldsType(call.before, "Id3v2")
    /\ Len(call.ret) = 2

\* C10: the tag sequence a successful write_all or write_primary returns is
\* the tag sequence read_all returns right after it.
C10_SnapshotIsReadAll ==
    (call.op \in {"write_all", "write_primary"} /\ call.ok) =>
        call.ret = read_all(disk, call.path).tags
====
